---- MODULE Spec2Model ----
(***************************************************************************)
(* Model of package p4p (src/p4p.go): the P4P object, its page-size        *)
(* normalisation, the layout and crop computations and the addImage path.  *)
(*                                                                         *)
(* float64 values are modelled as exact rationals <<n, d>> in lowest       *)
(* terms with d > 0.  The non-finite IEEE values a division by zero        *)
(* produces are kept: <<1, 0>> is +Inf, <<-1, 0>> is -Inf, <<0, 0>> is     *)
(* NaN.  Rounding error of float64 arithmetic and the sign of zero are     *)
(* not modelled.                                                           *)
(***************************************************************************)
EXTENDS Integers, Sequences, FiniteSets, TLC

\* ------------------------------------------------------------------ bounds
MaxPage == 2
MaxImg == 3
MaxImages == 2

\* With(v, Op) is Op(v) with v evaluated once.
With(v, Op(_)) == CHOOSE r \in {Op(x) : x \in {v}} : TRUE

\* -------------------------------------------------------- float64 arithmetic
Abs(i) == IF i < 0 THEN -i ELSE i

Sign(i) == IF i < 0 THEN -1 ELSE IF i > 0 THEN 1 ELSE 0

RECURSIVE GCD(_, _)
GCD(a, b) == IF b = 0 THEN a ELSE With(a % b, LAMBDA r : GCD(b, r))

\* The float64 with value n/d (d >= 0); d = 0 gives +Inf, -Inf or NaN.
Norm(n, d) ==
  With(<<n, d>>, LAMBDA v :
    IF v[2] = 0 THEN <<Sign(v[1]), 0>>
    ELSE With(GCD(Abs(v[1]), v[2]), LAMBDA g : <<v[1] \div g, v[2] \div g>>))

\* float64(i) of an int.
F(i) == <<i, 1>>

IsNaN(a) == With(a, LAMBDA v : v[2] = 0 /\ v[1] = 0)

Neg(a) == With(a, LAMBDA v : <<-v[1], v[2]>>)

MulV(a, b) ==
  IF a[2] = 0 \/ b[2] = 0 THEN <<Sign(a[1]) * Sign(b[1]), 0>>
  ELSE With(<<GCD(Abs(a[1]), b[2]), GCD(Abs(b[1]), a[2])>>, LAMBDA g :
         <<(a[1] \div g[1]) * (b[1] \div g[2]), (a[2] \div g[2]) * (b[2] \div g[1])>>)

Mul(a, b) == With(<<a, b>>, LAMBDA v : MulV(v[1], v[2]))

\* 1/b: 1/0 is +Inf, 1/Inf is 0, 1/NaN is NaN.
Recip(b) ==
  With(b, LAMBDA v :
    IF v[2] = 0 THEN (IF v[1] = 0 THEN <<0, 0>> ELSE <<0, 1>>)
    ELSE IF v[1] = 0 THEN <<1, 0>>
    ELSE <<Sign(v[1]) * v[2], Abs(v[1])>>)

Div(a, b) == Mul(a, Recip(b))

AddV(a, b) ==
  IF a[2] = 0 /\ b[2] = 0 THEN (IF a[1] = b[1] THEN a ELSE <<0, 0>>)
  ELSE IF a[2] = 0 THEN a
  ELSE IF b[2] = 0 THEN b
  ELSE With(GCD(a[2], b[2]), LAMBDA g :
         Norm(a[1] * (b[2] \div g) + b[1] * (a[2] \div g), (a[2] \div g) * b[2]))

Add(a, b) == With(<<a, b>>, LAMBDA v : AddV(v[1], v[2]))

Sub(a, b) == Add(a, Neg(b))

\* a < b and a > b; both are false when either side is NaN.
Lt(a, b) == Sub(a, b)[1] < 0

Gt(a, b) == Lt(b, a)

\* Trunc with a slip: rounds to the nearest integer.
RoundNearest(a) ==
  With(a, LAMBDA v :
    IF v[1] >= 0 THEN (2 * v[1] + v[2]) \div (2 * v[2])
    ELSE -((2 * (-v[1]) + v[2]) \div (2 * v[2])))

\* Trunc with a slip: rounds away from zero.
RoundUp(a) ==
  With(a, LAMBDA v :
    IF v[1] >= 0 THEN (v[1] + v[2] - 1) \div v[2] ELSE -((-v[1] + v[2] - 1) \div v[2]))

\* int(a): conversion of a finite float64 to int, truncating toward zero.
Trunc(a) ==
  With(a, LAMBDA v : IF v[1] >= 0 THEN v[1] \div v[2] ELSE -((-v[1]) \div v[2]))

Zero == <<0, 1>>

Two == <<2, 1>>

\* ---------------------------------------------------------------- the units
Point == <<1, 1>>

Inch == <<72, 1>>

Centimeter == Div(Inch, Norm(254, 100))

Millimeter == Div(Centimeter, F(10))

Units == {Point, Millimeter, Centimeter, Inch}

\* A Unit value that is none of the four constants.
BadUnit == <<2, 1>>

\* ---------------------------------------------------------------- page sizes
PageSize(W, H, UnitIsPt) == [W |-> W, H |-> H, UnitIsPt |-> UnitIsPt]

A4 == PageSize(Norm(59528, 100), Norm(84189, 100), TRUE)

normalize(s, u) ==
  IF s.UnitIsPt THEN PageSize(Div(s.W, u), Div(s.H, u), FALSE)
  ELSE s

\* ------------------------------------------------------------------- modes
Center == 0

Fit == 1

Fill == 2

ImageOptions(Mode, Scale) == [Mode |-> Mode, Scale |-> Scale]

\* -------------------------------------------------------------- the object
P4P(u, size, index) == [unit |-> u, normPageSize |-> size, imageIndex |-> index]

\* FitSize with a slip: the comparison of the Fill case.
FitSizeFlipped(imgW, imgH, pgW, pgH) ==
  IF Lt(Div(imgW, imgH), Div(pgW, pgH))
  THEN <<pgW, Div(Mul(pgW, imgH), imgW)>>
  ELSE <<Div(Mul(pgH, imgW), imgH), pgH>>

\* The Fit case of CalcImageLayout: the largest size that stays on the page.
FitSize(imgW, imgH, pgW, pgH) ==
  IF Gt(Div(imgW, imgH), Div(pgW, pgH))
  THEN <<pgW, Div(Mul(pgW, imgH), imgW)>>
  ELSE <<Div(Mul(pgH, imgW), imgH), pgH>>

\* FillSize with a slip: the comparison of the Fit case.
FillSizeFlipped(imgW, imgH, pgW, pgH) ==
  IF Gt(Div(imgW, imgH), Div(pgW, pgH))
  THEN <<pgW, Div(Mul(pgW, imgH), imgW)>>
  ELSE <<Div(Mul(pgH, imgW), imgH), pgH>>

\* FillSize with a slip: each dimension is set to the page's.
FillSizeStretched(imgW, imgH, pgW, pgH) == <<pgW, pgH>>

\* The Fill case of CalcImageLayout: the smallest size that covers the page.
FillSize(imgW, imgH, pgW, pgH) ==
  IF Lt(Div(imgW, imgH), Div(pgW, pgH))
  THEN <<pgW, Div(Mul(pgW, imgH), imgW)>>
  ELSE <<Div(Mul(pgH, imgW), imgH), pgH>>

\* The first switch of CalcImageLayout: <<w, h>> by mode, zero for no mode.
ModeSize(mode, imgW, imgH, pgW, pgH) ==
  CASE mode = Center -> <<imgW, imgH>>
    [] mode = Fit -> FitSize(imgW, imgH, pgW, pgH)
    [] mode = Fill -> FillSize(imgW, imgH, pgW, pgH)
    [] OTHER -> <<Zero, Zero>>

\* The scaling of CalcImageLayout: a Scale that is not positive is no scale.
ScaleSize(wh, scale) ==
  IF Gt(scale, Zero) THEN <<Mul(wh[1], scale), Mul(wh[2], scale)>> ELSE wh

\* The second switch of CalcImageLayout: <<x, y>> centres the image.
Position(mode, pgW, pgH, wh) ==
  IF mode \in {Center, Fit, Fill}
  THEN <<Sub(Div(pgW, Two), Div(wh[1], Two)), Sub(Div(pgH, Two), Div(wh[2], Two))>>
  ELSE <<Zero, Zero>>

\* CalcImageLayout with a slip: the position moves with the image counter.
CalcImageLayoutCounting(p, imgWidthPx, imgHeightPx, opts) ==
  With([pgW |-> p.normPageSize.W, pgH |-> p.normPageSize.H,
        imgW |-> Div(F(imgWidthPx), p.unit), imgH |-> Div(F(imgHeightPx), p.unit)],
    LAMBDA v :
  With(ModeSize(opts.Mode, v.imgW, v.imgH, v.pgW, v.pgH), LAMBDA wh0 :
  With(ScaleSize(wh0, opts.Scale), LAMBDA wh :
  With(Position(opts.Mode, v.pgW, v.pgH, wh), LAMBDA xy :
    [x |-> Add(xy[1], F(p.imageIndex)), y |-> xy[2], w |-> wh[1], h |-> wh[2]]))))

\* CalcImageLayout: the layout x, y, w, h in the units of the object.
CalcImageLayout(p, imgWidthPx, imgHeightPx, opts) ==
  With([pgW |-> p.normPageSize.W, pgH |-> p.normPageSize.H,
        imgW |-> Div(F(imgWidthPx), p.unit), imgH |-> Div(F(imgHeightPx), p.unit)],
    LAMBDA v :
  With(ModeSize(opts.Mode, v.imgW, v.imgH, v.pgW, v.pgH), LAMBDA wh0 :
  With(ScaleSize(wh0, opts.Scale), LAMBDA wh :
  With(Position(opts.Mode, v.pgW, v.pgH, wh), LAMBDA xy :
    [x |-> xy[1], y |-> xy[2], w |-> wh[1], h |-> wh[2]]))))

\* The placed image and the page in image-pixel coordinates
\* (the locals of CalcImageCropCoords before any edge is cropped).
CropPixelSpace(p, imgWidthPx, imgHeightPx, opts) ==
  With(CalcImageLayout(p, imgWidthPx, imgHeightPx, opts), LAMBDA l :
  With([pxW |-> Div(l.w, F(imgWidthPx)), pxH |-> Div(l.h, F(imgHeightPx))], LAMBDA px :
  With([imgX1 |-> Div(l.x, px.pxW), imgY1 |-> Div(l.y, px.pxH)], LAMBDA o :
    [imgX1 |-> o.imgX1, imgY1 |-> o.imgY1,
     imgX2 |-> Add(o.imgX1, F(imgWidthPx)), imgY2 |-> Add(o.imgY1, F(imgHeightPx)),
     pgWPx |-> Div(p.normPageSize.W, px.pxW), pgHPx |-> Div(p.normPageSize.H, px.pxH)])))

\* CropEdges with a slip: the left and top tests include zero.
CropEdgesInclusive(s, imgWidthPx, imgHeightPx) ==
  With([left |-> Lt(s.imgX1, Zero) \/ s.imgX1 = Zero,
        top |-> Lt(s.imgY1, Zero) \/ s.imgY1 = Zero,
        right |-> Gt(s.imgX2, Add(s.pgWPx, s.imgX1)),
        bottom |-> Gt(s.imgY2, Add(s.pgHPx, s.imgY1))], LAMBDA c :
    [x1 |-> IF c.left THEN Trunc(Neg(s.imgX1)) ELSE 0,
     y1 |-> IF c.top THEN Trunc(Neg(s.imgY1)) ELSE 0,
     x2 |-> IF c.right THEN Trunc(Sub(s.pgWPx, s.imgX1)) ELSE imgWidthPx,
     y2 |-> IF c.bottom THEN Trunc(Sub(s.pgHPx, s.imgY1)) ELSE imgHeightPx,
     mustCrop |-> c.left \/ c.top \/ c.right \/ c.bottom])

\* The four edge tests of CalcImageCropCoords and the crop they produce.
CropEdges(s, imgWidthPx, imgHeightPx) ==
  With([left |-> Lt(s.imgX1, Zero), top |-> Lt(s.imgY1, Zero),
        right |-> Gt(s.imgX2, Add(s.pgWPx, s.imgX1)),
        bottom |-> Gt(s.imgY2, Add(s.pgHPx, s.imgY1))], LAMBDA c :
    [x1 |-> IF c.left THEN Trunc(Neg(s.imgX1)) ELSE 0,
     y1 |-> IF c.top THEN Trunc(Neg(s.imgY1)) ELSE 0,
     x2 |-> IF c.right THEN Trunc(Sub(s.pgWPx, s.imgX1)) ELSE imgWidthPx,
     y2 |-> IF c.bottom THEN Trunc(Sub(s.pgHPx, s.imgY1)) ELSE imgHeightPx,
     mustCrop |-> c.left \/ c.top \/ c.right \/ c.bottom])

\* CalcImageCropCoords: the crop rectangle and whether cropping is needed.
CalcImageCropCoords(p, imgWidthPx, imgHeightPx, opts) ==
  With(CropPixelSpace(p, imgWidthPx, imgHeightPx, opts), LAMBDA s :
    CropEdges(s, imgWidthPx, imgHeightPx))

\* ------------------------------------------------ the document writer (gofpdf)
\* gofpdf.NewCustom: an empty document in the given unit and page size.
NewCustom(unitStr, size) ==
  [UnitStr |-> unitStr, Wd |-> size.W, Ht |-> size.H, pages |-> <<>>, images |-> <<>>]

\* Fpdf.AddPage: a new, empty page becomes the current page.
AddPage(d) == [d EXCEPT !.pages = Append(@, <<>>)]

\* Fpdf.RegisterImageOptionsReader: the image read from r is kept under name.
RegisterImageOptionsReader(d, name, typ, r) ==
  [d EXCEPT !.images = Append(@, [name |-> name, ImageType |-> typ, w |-> r.w, h |-> r.h])]

\* info.Width() and info.Height(): the image size in the units of the document.
InfoSize(r, u) == [Width |-> Div(F(r.w), u), Height |-> Div(F(r.h), u)]

\* Fpdf.ImageOptions: the named image is put on the current page.
PutImage(d, name, l) ==
  With(d, LAMBDA v :
    [v EXCEPT !.pages[Len(v.pages)] = Append(@, [name |-> name, layout |-> l])])

\* strconv.Itoa for i >= 0: the decimal digits.
RECURSIVE Itoa(_)
Itoa(i) ==
  LET digit == <<"0", "1", "2", "3", "4", "5", "6", "7", "8", "9">>[(i % 10) + 1]
  IN  IF i < 10 THEN <<digit>> ELSE Append(Itoa(i \div 10), digit)

ImageName(i) == <<"p4p_image_">> \o Itoa(i)

\* New: the unit string of the switch, "" for the default case (which panics).
UnitStr(u) ==
  CASE u = Point -> "pt"
    [] u = Millimeter -> "mm"
    [] u = Centimeter -> "cm"
    [] u = Inch -> "in"
    [] OTHER -> ""

\* addImage with a slip: the name is taken after the counter is incremented.
addImageNameAfterIncrement(p, d, typ, r, opts) ==
  With(ImageName(p.imageIndex + 1), LAMBDA name :
  With(InfoSize(r, p.unit), LAMBDA info :
  With(CalcImageLayout(p, Trunc(Mul(info.Width, p.unit)),
                       Trunc(Mul(info.Height, p.unit)), opts), LAMBDA l :
    [imageIndex |-> p.imageIndex + 1,
     pdf |-> PutImage(RegisterImageOptionsReader(AddPage(d), name, typ, r), name, l)])))

\* addImage: the object and the document after one image is added.
addImage(p, d, typ, r, opts) ==
  With(ImageName(p.imageIndex), LAMBDA name :
  With(InfoSize(r, p.unit), LAMBDA info :
  With(CalcImageLayout(p, Trunc(Mul(info.Width, p.unit)),
                       Trunc(Mul(info.Height, p.unit)), opts), LAMBDA l :
    [imageIndex |-> p.imageIndex + 1,
     pdf |-> PutImage(RegisterImageOptionsReader(AddPage(d), name, typ, r), name, l)])))

\* AddImage: the image type chosen from the image's opacity.
ImageType(img) ==
  LET hasAlpha == IF img.opaque = "unknown" THEN TRUE ELSE img.opaque = "no"
  IN  IF hasAlpha THEN "png" ELSE "jpeg"

\* filepath.Ext and strings.TrimPrefix(ext, ".") on a path <<base, ".", ext>>.
Ext(path) == IF Len(path) >= 3 THEN SubSeq(path, Len(path) - 1, Len(path)) ELSE <<>>

TrimPrefix(s, prefix) == IF s # <<>> /\ Head(s) = prefix THEN Tail(s) ELSE s

\* The file system: the paths that name an image file, with the image's pixel size.
Files == <<"gopher", ".", "png">> :> [w |-> 3, h |-> 2]

\* ------------------------------------------------------------------- state
\* pc: "start" before New, "ready" once New returned, "panicked" if it panicked.
\* unit, normPageSize, imageIndex, pdf: the fields of the P4P object.
\* last: the last CalcImageLayout or CalcImageCropCoords call and its result.
\* ret:  what the last AddImage or AddImageFile call returned.
VARIABLES pc, unit, normPageSize, imageIndex, pdf, last, ret

vars == <<pc, unit, normPageSize, imageIndex, pdf, last, ret>>

Self == P4P(unit, normPageSize, imageIndex)

NoLayout == [x |-> Zero, y |-> Zero, w |-> Zero, h |-> Zero]

NoCrop == [x1 |-> 0, y1 |-> 0, x2 |-> 0, y2 |-> 0, mustCrop |-> FALSE]

\* The record of a computation call: its inputs, what it returned, and
\* whether it panicked instead of returning.
Call(op, w, h, opts, layout, crop, panicked) ==
  [op |-> op, imgWidthPx |-> w, imgHeightPx |-> h, opts |-> opts,
   layout |-> layout, crop |-> crop, panicked |-> panicked]

NoCall == Call("none", 0, 0, ImageOptions(Center, Zero), NoLayout, NoCrop, FALSE)

\* ------------------------------------------------------------------ inputs
PageSizes ==
  {PageSize(F(W), F(H), b) : W \in 0..MaxPage, H \in 0..MaxPage, b \in BOOLEAN}

ImgSizes == ((0..MaxImg) \X (0..MaxImg)) \cup {<<316, 317>>}

Scales == {Zero, <<1, 2>>, <<1, 1>>, <<3, 2>>, <<4, 1>>}

\* Mode 3 is no declared mode.
Modes == {Center, Fit, Fill, 3}

AllOptions == {ImageOptions(m, s) : m \in Modes, s \in Scales}

\* The arguments of New: every unit with every small page, and A4 in points.
NewInputs == ((Units \cup {BadUnit}) \X PageSizes) \cup {<<Point, A4>>}

\* ----------------------------------------------------------------- actions
New(u, pageSize) ==
  /\ pc = "start"
  /\ IF UnitStr(u) = ""
     THEN /\ pc' = "panicked"
          /\ UNCHANGED <<unit, normPageSize, imageIndex, pdf, last, ret>>
     ELSE LET size == normalize(pageSize, u)
          IN  /\ pc' = "ready"
              /\ unit' = u
              /\ normPageSize' = size
              /\ imageIndex' = 0
              /\ pdf' = NewCustom(UnitStr(u), size)
              /\ UNCHANGED <<last, ret>>

CallCalcImageLayout(imgWidthPx, imgHeightPx, opts) ==
  /\ pc = "ready"
  /\ last' = Call("CalcImageLayout", imgWidthPx, imgHeightPx, opts,
                  CalcImageLayout(Self, imgWidthPx, imgHeightPx, opts), NoCrop, FALSE)
  /\ UNCHANGED <<pc, unit, normPageSize, imageIndex, pdf, ret>>

CallCalcImageCropCoords(imgWidthPx, imgHeightPx, opts) ==
  /\ pc = "ready"
  /\ last' = Call("CalcImageCropCoords", imgWidthPx, imgHeightPx, opts, NoLayout,
                  CalcImageCropCoords(Self, imgWidthPx, imgHeightPx, opts), FALSE)
  /\ UNCHANGED <<pc, unit, normPageSize, imageIndex, pdf, ret>>

\* AddImage: encodeFails is whether png.Encode or jpeg.Encode returns an error.
\* (MaxImages caps the number of images a behaviour adds.)
AddImage(img, opts, encodeFails) ==
  /\ pc = "ready"
  /\ IF encodeFails
     THEN /\ ret' = "error"
          /\ UNCHANGED <<imageIndex, pdf>>
     ELSE LET a == addImage(Self, pdf, ImageType(img), img, opts)
          IN  /\ imageIndex < MaxImages
              /\ imageIndex' = a.imageIndex
              /\ pdf' = a.pdf
              /\ ret' = "nil"
  /\ UNCHANGED <<pc, unit, normPageSize, last>>

\* AddImageFile: os.Open fails for a path that names no file.
AddImageFile(path, opts) ==
  /\ pc = "ready"
  /\ IF path \notin DOMAIN Files
     THEN /\ ret' = "error"
          /\ UNCHANGED <<imageIndex, pdf>>
     ELSE LET a == addImage(Self, pdf, TrimPrefix(Ext(path), "."), Files[path], opts)
          IN  /\ imageIndex < MaxImages
              /\ imageIndex' = a.imageIndex
              /\ pdf' = a.pdf
              /\ ret' = "nil"
  /\ UNCHANGED <<pc, unit, normPageSize, last>>

\* --------------------------- one construction followed by one computation
InitCalc ==
  /\ pc = "start"
  /\ unit = Point
  /\ normPageSize = PageSize(Zero, Zero, FALSE)
  /\ imageIndex = 0
  /\ pdf = NewCustom("", PageSize(Zero, Zero, FALSE))
  /\ last = NoCall
  /\ ret = "none"

NextCalc ==
  \/ \E in \in NewInputs : New(in[1], in[2])
  \/ /\ last.op = "none"
     /\ \E sz \in ImgSizes, opts \in AllOptions : CallCalcImageLayout(sz[1], sz[2], opts)
  \/ /\ last.op = "none"
     /\ \E sz \in ImgSizes, opts \in AllOptions : CallCalcImageCropCoords(sz[1], sz[2], opts)

SpecCalc == InitCalc /\ [][NextCalc]_vars

\* ------------------------------------- the object in use: any sequence of calls
\* The arguments New was called with, and the arguments of the later calls.
Objects ==
  {<<u, ps>> : u \in {Point, Millimeter},
               ps \in {PageSize(F(2), F(3), FALSE), PageSize(F(144), F(72), TRUE)}}

Images == {[w |-> 2, h |-> 1, opaque |-> "yes"], [w |-> 1, h |-> 2, opaque |-> "unknown"]}

Paths == {<<"gopher", ".", "png">>, <<"missing", ".", "png">>}

Options == {ImageOptions(Fill, <<3, 2>>)}

Sizes == {<<2, 1>>, <<1, 3>>}

Init ==
  \E o \in Objects :
    LET size == normalize(o[2], o[1])
    IN  /\ pc = "ready"
        /\ unit = o[1]
        /\ normPageSize = size
        /\ imageIndex = 0
        /\ pdf = NewCustom(UnitStr(o[1]), size)
        /\ last = NoCall
        /\ ret = "none"

Next ==
  \/ \E sz \in Sizes, opts \in Options : CallCalcImageLayout(sz[1], sz[2], opts)
  \/ \E sz \in Sizes, opts \in Options : CallCalcImageCropCoords(sz[1], sz[2], opts)
  \/ \E img \in Images, opts \in Options, encodeFails \in BOOLEAN :
       AddImage(img, opts, encodeFails)
  \/ \E path \in Paths, opts \in Options : AddImageFile(path, opts)

Spec == Init /\ [][Next]_vars

\* ------------------------------------------------ claims on the computations
Le(a, b) == ~IsNaN(a) /\ ~IsNaN(b) /\ ~Gt(a, b)

One == <<1, 1>>

IsLayoutCall == pc = "ready" /\ last.op = "CalcImageLayout"

IsCropCall == pc = "ready" /\ last.op = "CalcImageCropCoords"

\* The preconditions: a page and an image of positive size and a declared mode.
InputIsValid ==
  /\ Gt(normPageSize.W, Zero) /\ Gt(normPageSize.H, Zero)
  /\ last.imgWidthPx >= 1 /\ last.imgHeightPx >= 1
  /\ last.opts.Mode \in {Center, Fit, Fill}

NoScale == ~Gt(last.opts.Scale, Zero)

\* imgWidthPx/imgHeightPx compared with pageW/pageH, by cross-multiplication.
ImageIsWider ==
  Gt(Mul(F(last.imgWidthPx), normPageSize.H), Mul(F(last.imgHeightPx), normPageSize.W))

ImageIsNarrower ==
  Lt(Mul(F(last.imgWidthPx), normPageSize.H), Mul(F(last.imgHeightPx), normPageSize.W))

AspectIsKept ==
  Mul(last.layout.w, F(last.imgHeightPx)) = Mul(last.layout.h, F(last.imgWidthPx))

IsA4FillCall ==
  /\ IsCropCall
  /\ unit = Point
  /\ normPageSize = PageSize(Norm(59528, 100), Norm(84189, 100), FALSE)
  /\ last.imgWidthPx = 316 /\ last.imgHeightPx = 317
  /\ last.opts = ImageOptions(Fill, Zero)

\* C1: for a page and an image of positive size, any mode and any Scale, the
\* crop rectangle lies within [0, imgWidthPx] x [0, imgHeightPx] and, whenever
\* mustCrop is true, is not empty (x1 < x2 and y1 < y2).
C1_CropRectInImageAndNotEmpty ==
  (IsCropCall /\ InputIsValid) =>
    /\ 0 <= last.crop.x1 /\ last.crop.x1 <= last.imgWidthPx
    /\ 0 <= last.crop.x2 /\ last.crop.x2 <= last.imgWidthPx
    /\ 0 <= last.crop.y1 /\ last.crop.y1 <= last.imgHeightPx
    /\ 0 <= last.crop.y2 /\ last.crop.y2 <= last.imgHeightPx
    /\ (last.crop.mustCrop => last.crop.x1 < last.crop.x2 /\ last.crop.y1 < last.crop.y2)

\* C2 as stated: A4 in points, image 316 x 317, Fill, no Scale: the crop is
\* x1 = 58, y1 = 18, x2 = 257, y2 = 298 with mustCrop = true.
C2_A4FillCropAsStated ==
  IsA4FillCall =>
    last.crop = [x1 |-> 58, y1 |-> 18, x2 |-> 257, y2 |-> 298, mustCrop |-> TRUE]

\* C2 as amended: A4 in points, image 316 x 317, Fill, no Scale: the crop is
\* x1 = 45, y1 = 0, x2 = 270, y2 = 317 with mustCrop = true.
C2_A4FillCrop ==
  IsA4FillCall =>
    last.crop = [x1 |-> 45, y1 |-> 0, x2 |-> 270, y2 |-> 317, mustCrop |-> TRUE]

C2_A4FillCropReturned == IsA4FillCall

LayoutLeavesPage ==
  With(CalcImageLayout(Self, last.imgWidthPx, last.imgHeightPx, last.opts), LAMBDA l :
    \/ Lt(l.x, Zero) \/ Lt(l.y, Zero)
    \/ Gt(Add(l.x, l.w), normPageSize.W) \/ Gt(Add(l.y, l.h), normPageSize.H))

C7_InvalidInputAborts ==
  /\ pc = "ready" => unit \in Units
  /\ (pc = "ready" /\ last.op # "none" /\ ~InputIsValid) => last.panicked

\* The exact pixel-space values of the last call's inputs.
LastPixelSpace == CropPixelSpace(Self, last.imgWidthPx, last.imgHeightPx, last.opts)

\* F(i) <= a < F(i) + 1 and F(i) - 1 < a <= F(i).
IsFloorOf(i, a) == Le(F(i), a) /\ Lt(a, F(i + 1))

IsCeilOf(i, a) == Le(a, F(i)) /\ Lt(F(i - 1), a)

\* C8 as stated: on every cropped edge the integer bound is conservative,
\* x1 >= -imgX1, y1 >= -imgY1, x2 <= pgWPx - imgX1, y2 <= pgHPx - imgY1, and
\* is less than one pixel from the exact value.
C8_TruncationConservativeAsStated ==
  (IsCropCall /\ InputIsValid) =>
    With(LastPixelSpace, LAMBDA s :
      /\ Lt(s.imgX1, Zero) => IsCeilOf(last.crop.x1, Neg(s.imgX1))
      /\ Lt(s.imgY1, Zero) => IsCeilOf(last.crop.y1, Neg(s.imgY1))
      /\ Gt(s.imgX2, Add(s.pgWPx, s.imgX1)) =>
           IsFloorOf(last.crop.x2, Sub(s.pgWPx, s.imgX1))
      /\ Gt(s.imgY2, Add(s.pgHPx, s.imgY1)) =>
           IsFloorOf(last.crop.y2, Sub(s.pgHPx, s.imgY1)))

\* C8 as amended: the truncation is conservative on the right and bottom edges
\* only, x2 <= pgWPx - imgX1 and y2 <= pgHPx - imgY1; on the left and top edges
\* it gives x1 <= -imgX1 and y1 <= -imgY1, so the first kept column or row may
\* lie partly outside the page; every bound is less than one pixel from the
\* exact value.
C8_TruncationTowardZero ==
  (IsCropCall /\ InputIsValid) =>
    With(LastPixelSpace, LAMBDA s :
      /\ Lt(s.imgX1, Zero) => IsFloorOf(last.crop.x1, Neg(s.imgX1))
      /\ Lt(s.imgY1, Zero) => IsFloorOf(last.crop.y1, Neg(s.imgY1))
      /\ Gt(s.imgX2, Add(s.pgWPx, s.imgX1)) =>
           IsFloorOf(last.crop.x2, Sub(s.pgWPx, s.imgX1))
      /\ Gt(s.imgY2, Add(s.pgHPx, s.imgY1)) =>
           IsFloorOf(last.crop.y2, Sub(s.pgHPx, s.imgY1)))

C8_FractionalEdgesCropped ==
  /\ IsCropCall /\ InputIsValid
  /\ With(LastPixelSpace, LAMBDA s :
       /\ Lt(s.imgX1, Zero) /\ Lt(F(last.crop.x1), Neg(s.imgX1))
       /\ Gt(s.imgX2, Add(s.pgWPx, s.imgX1))
       /\ Lt(F(last.crop.x2), Sub(s.pgWPx, s.imgX1)))

\* ------------------------------------------------ claims on the object in use
SameInputs(a, b) ==
  /\ a.op = b.op
  /\ a.imgWidthPx = b.imgWidthPx /\ a.imgHeightPx = b.imgHeightPx
  /\ a.opts = b.opts

\* C9: a computation changes neither imageIndex, unit, the normalized page
\* size nor the document, and a computation with the inputs of the previous
\* one returns the same result however many images were added in between.
C9_ComputationsArePure ==
  [][/\ last' # last => UNCHANGED <<unit, normPageSize, imageIndex, pdf>>
     /\ (last.op # "none" /\ SameInputs(last', last)) => last' = last]_vars

C9_ComputedAfterImagesAdded ==
  /\ last.op \in {"CalcImageLayout", "CalcImageCropCoords"}
  /\ imageIndex = MaxImages /\ Len(pdf.pages) = MaxImages

\* strconv.Atoi on decimal digits, for reading a name back.
RECURSIVE Atoi(_)
Atoi(digits) ==
  IF digits = <<>> THEN 0
  ELSE 10 * Atoi(SubSeq(digits, 1, Len(digits) - 1))
       + (CHOOSE i \in 0..9 : Itoa(i) = <<digits[Len(digits)]>>)

\* The k-th registered image is named p4p_image_(k-1) and is the one image
\* on the k-th page.
IsKthImage(k) ==
  /\ Head(pdf.images[k].name) = "p4p_image_"
  /\ Len(pdf.images[k].name) >= 2
  /\ Atoi(Tail(pdf.images[k].name)) = k - 1
  /\ Len(pdf.pages[k]) = 1
  /\ pdf.pages[k][1].name = pdf.images[k].name

\* C10: imageIndex equals the number of pages and of registered names, the
\* k-th image is named p4p_image_(k-1), names are pairwise distinct, and a call
\* that returns an error changes neither imageIndex nor the document.
C10_OneNamedPagePerImage ==
  /\ [](/\ imageIndex = Len(pdf.pages)
        /\ imageIndex = Len(pdf.images)
        /\ \A k \in 1..Len(pdf.images) : IsKthImage(k)
        /\ \A j, k \in 1..Len(pdf.images) :
             j # k => pdf.images[j].name # pdf.images[k].name)
  /\ [][ret' = "error" => UNCHANGED <<imageIndex, pdf>>]_vars

C10_ErrorAfterImagesAdded ==
  /\ ret = "error"
  /\ imageIndex = MaxImages /\ Len(pdf.images) = MaxImages

====
